---- MODULE Spec2Model ----
(***************************************************************************)
(* Model of the village-entry analytics API: the successive versions of    *)
(* the Express service kept in the repository (src/index.js and            *)
(* src/unnamed/part_001, part_002), each of which reads one Google Sheets  *)
(* range and answers HTTP GET queries with counts over its rows.           *)
(*                                                                         *)
(* JavaScript strings are TLA+ strings (TLC evaluates Len, \o and SubSeq   *)
(* on them); JavaScript's undefined is the value Undefined; array indices  *)
(* are kept 0-based as in the source and read through At.                  *)
(*                                                                         *)
(* Versions, named by the banner each prints when it starts listening:     *)
(*   v80  src/unnamed/part_001 lines   1..120  ("Aiikya Analytics v8.0")   *)
(*   v2   src/unnamed/part_001 lines 122..386  (fixed column numbers,      *)
(*                                              with sentiment)            *)
(*   v75  src/unnamed/part_002                 ("Aiikya Analytics v7.5")   *)
(*   v1   src/index.js        lines   1..249   (fixed column numbers)      *)
(*   v3   src/index.js        lines 251..364   (getRows, header-keyed)     *)
(***************************************************************************)
EXTENDS Integers, Sequences, FiniteSets, TLC

VARIABLES
    fn,      \* pure-function harness: the function applied ("none" before)
    arg,     \* pure-function harness: its input
    out,     \* pure-function harness: its result
    values,  \* the sheet: res.data.values as the Sheets API returns it
    pc,      \* per request: "idle", "fetching", "done" or "crashed"
    req,     \* per request: the endpoint and query it carries
    resp,    \* per request: the responses sent, in order
    fetches  \* per request: how many spreadsheets.values.get calls it made

vars == <<fn, arg, out, values, pc, req, resp, fetches>>

(***************************************************************************)
(* JavaScript values and strings                                           *)
(***************************************************************************)

\* JavaScript's undefined: what reading past the end of an array, reading
\* index -1, or reading a missing property yields.
Undefined == "<undefined>"

\* r[i] on a JavaScript array, i a 0-based index (any integer).
At(r, i) == IF i >= 0 /\ i < Len(r) THEN r[i + 1] ELSE Undefined

\* String(v) as a template literal `${v}` computes it.
Str(v) == IF v = Undefined THEN "undefined" ELSE v

\* Truthiness of a string-or-undefined value: !v is true of undefined and "".
Truthy(v) == v # Undefined /\ v # ""

\* v || d
OrElse(v, d) == IF Truthy(v) THEN v ELSE d

Char(s, i) == SubSeq(s, i, i)

\* \s of a JavaScript regular expression and the characters trim() strips,
\* restricted to the ones the model's inputs contain.
IsSpace(c) == c \in {" ", "\t"}

RECURSIVE TrimStart(_)
TrimStart(s) ==
    IF Len(s) = 0 THEN s
    ELSE IF IsSpace(Char(s, 1)) THEN TrimStart(SubSeq(s, 2, Len(s)))
    ELSE s

RECURSIVE TrimEnd(_)
TrimEnd(s) ==
    IF Len(s) = 0 THEN s
    ELSE IF IsSpace(Char(s, Len(s))) THEN TrimEnd(SubSeq(s, 1, Len(s) - 1))
    ELSE s

\* String.prototype.trim
Trim(s) == TrimEnd(TrimStart(s))

UpperLetters == "ABCDEFGHIJKLMNOPQRSTUVWXYZ"
LowerLetters == "abcdefghijklmnopqrstuvwxyz"

UpperSet == {Char(UpperLetters, i) : i \in 1..Len(UpperLetters)}

LowerChar(c) ==
    IF c \in UpperSet
    THEN Char(LowerLetters, CHOOSE i \in 1..Len(UpperLetters) : Char(UpperLetters, i) = c)
    ELSE c

\* String.prototype.toLowerCase
RECURSIVE ToLowerCase(_)
ToLowerCase(s) ==
    IF Len(s) = 0 THEN s
    ELSE LowerChar(Char(s, 1)) \o ToLowerCase(SubSeq(s, 2, Len(s)))

\* s.replace(/\s+/g, " "): every maximal run of whitespace becomes one space.
RECURSIVE CollapseSpaces(_)
CollapseSpaces(s) ==
    IF Len(s) = 0 THEN s
    ELSE IF IsSpace(Char(s, 1))
         THEN " " \o CollapseSpaces(TrimStart(s))
         ELSE Char(s, 1) \o CollapseSpaces(SubSeq(s, 2, Len(s)))

\* String.prototype.includes
Includes(s, sub) ==
    \E i \in 1..(Len(s) - Len(sub) + 1) : SubSeq(s, i, i + Len(sub) - 1) = sub

(***************************************************************************)
(* Record Normalizer: readSheet, getRows, findColumn                       *)
(***************************************************************************)

\* A sheet whose range is empty: the Sheets API then omits `values`
\* altogether, and the model writes that as the empty sequence.
NoValues == <<>>

\* What a function returns or throws.
Ok(v) == [kind |-> "ok", val |-> v]
Throw(m) == [kind |-> "throw", msg |-> m]

\* while (row.length < cleanHeaders.length) row.push("")
RECURSIVE PadRowBug(_, _)
PadRowBug(row, n) == IF Len(row) + 1 < n THEN PadRowBug(Append(row, ""), n) ELSE row

RECURSIVE PadRow(_, _)
PadRow(row, n) == IF Len(row) < n THEN PadRow(Append(row, ""), n) ELSE row

\* readSheet of v8.0 and of v7.5 (the two are the same code): headers are
\* trimmed, rows padded; `headers.map` throws a TypeError when the sheet has
\* no row at all, headers being undefined then.
readSheet(vals) ==
    IF Len(vals) = 0
    THEN Throw("Cannot read properties of undefined (reading 'map')")
    ELSE LET headers == vals[1]
             rows == SubSeq(vals, 2, Len(vals))
             cleanHeaders == [i \in 1..Len(headers) |-> Trim(OrElse(headers[i], ""))]
             padded == [k \in 1..Len(rows) |-> PadRow(rows[k], Len(cleanHeaders))]
         IN Ok([headers |-> cleanHeaders, rows |-> padded])

(***************************************************************************)
(* Timestamp Resolver: split, parseInt, the Date constructor,              *)
(* parseTimestamp, toDate                                                   *)
(***************************************************************************)

Digits == "0123456789"

IsDigit(c) == \E i \in 1..Len(Digits) : Char(Digits, i) = c

DigitVal(c) == (CHOOSE i \in 1..Len(Digits) : Char(Digits, i) = c) - 1

AllDigits(s) == Len(s) > 0 /\ \A i \in 1..Len(s) : IsDigit(Char(s, i))

\* NaN, which no comparison is true of; the numbers of the model are >= 0.
NaN == -1

\* The value of the longest prefix of s made of digits, NaN when there is none.
RECURSIVE DigitsValue(_, _)
DigitsValue(s, acc) ==
    IF Len(s) = 0 \/ ~IsDigit(Char(s, 1)) THEN acc
    ELSE DigitsValue(SubSeq(s, 2, Len(s)), 10 * acc + DigitVal(Char(s, 1)))

\* parseInt(s) for s without a sign: leading whitespace skipped, then digits.
ParseInt(s) ==
    LET t == TrimStart(s)
    IN IF Len(t) = 0 \/ ~IsDigit(Char(t, 1)) THEN NaN ELSE DigitsValue(t, 0)

\* Number(s), as the arithmetic and the numeric Date constructor coerce a string:
\* "" and blanks are 0, digits their value, anything else NaN.
ToNumber(s) ==
    LET t == Trim(s)
    IN IF Len(t) = 0 THEN 0 ELSE IF AllDigits(t) THEN DigitsValue(t, 0) ELSE NaN

\* x > n and x <= n in JavaScript: false when x is NaN.
Gt(x, n) == x # NaN /\ x > n
Le(x, n) == x # NaN /\ x <= n

\* s.split(/[...]/) for a character class D: the pieces between delimiters,
\* empty pieces included.
RECURSIVE Split(_, _)
Split(s, D) ==
    IF \E i \in 1..Len(s) : Char(s, i) \in D
    THEN LET i == CHOOSE j \in 1..Len(s) :
                      /\ Char(s, j) \in D
                      /\ \A k \in 1..(j - 1) : Char(s, k) \notin D
         IN <<SubSeq(s, 1, i - 1)>> \o Split(SubSeq(s, i + 1, Len(s)), D)
    ELSE <<s>>

\* The character class of ts.split(/[\/ :]/).
TsDelims == {"/", " ", ":"}

IsLeap(y) == (y % 4 = 0 /\ y % 100 # 0) \/ y % 400 = 0

DaysInMonth(y, m) ==
    IF m = 2 THEN (IF IsLeap(y) THEN 29 ELSE 28)
    ELSE IF m \in {4, 6, 9, 11} THEN 30 ELSE 31

\* A Date value: a calendar day (the time of day is 00:00 in every Date the
\* period filters compare), an Invalid Date, or null.
DateOf(y, m, d) == [kind |-> "date", y |-> y, m |-> m, d |-> d]
InvalidDate == [kind |-> "invalid", y |-> 0, m |-> 0, d |-> 0]
Null == [kind |-> "null", y |-> 0, m |-> 0, d |-> 0]

\* MakeDay of ECMAScript: a month past December or a day past the month's end
\* is carried into the following month or year, and likewise downwards.
RECURSIVE MakeDay(_, _, _)
MakeDay(y, m, d) ==
    IF m > 12 THEN MakeDay(y + 1, m - 12, d)
    ELSE IF m < 1 THEN MakeDay(y - 1, m + 12, d)
    ELSE IF d > DaysInMonth(y, m) THEN MakeDay(y, m + 1, d - DaysInMonth(y, m))
    ELSE IF d < 1
         THEN (IF m = 1 THEN MakeDay(y - 1, 12, d + 31)
               ELSE MakeDay(y, m - 1, d + DaysInMonth(y, m - 1)))
    ELSE DateOf(y, m, d)

\* V8's date parser accepts a month in 1..12 and a day in 1..31, whatever the
\* month, and leaves the rest to MakeDay.
ComposeDay(y, m, d) ==
    IF m \in 1..12 /\ d \in 1..31 THEN MakeDay(y, m, d) ELSE InvalidDate

\* Two-digit years of the legacy parser.
LegacyYear(y) == IF y \in 0..49 THEN y + 2000 ELSE IF y \in 50..99 THEN y + 1900 ELSE y

\* V8's legacy parser on three numbers: year first when the first is no day
\* of a month (not in 1..31), month/day/year otherwise.
LegacyDate(c1, c2, c3) ==
    IF c1 \notin 1..31
    THEN ComposeDay(LegacyYear(c1), c2, c3)
    ELSE ComposeDay(LegacyYear(c3), c1, c2)

\* hh:mm:ss as the parser accepts it.
ValidTime(t) ==
    LET p == Split(t, {":"})
    IN /\ Len(p) \in {2, 3}
       /\ \A i \in 1..Len(p) : AllDigits(p[i])
       /\ DigitsValue(p[1], 0) <= 23
       /\ \A i \in 2..Len(p) : DigitsValue(p[i], 0) <= 59

\* new Date(s) in V8 for the strings this program builds or is handed: three
\* groups of digits separated by "-" or "/", then optionally a blank and a
\* time. YYYY-MM-DD with a month and a day the parser accepts is an ISO date;
\* anything else goes to the legacy parser. Text that is not of this form is
\* an Invalid Date. The process runs in UTC (no TZ is configured), so that an
\* ISO date and a legacy date name the same instant.
NewDate(s) ==
    LET pieces == Split(s, {" "})
        date == pieces[1]
        n == Split(date, {"-", "/"})
    IN IF Len(pieces) > 2 \/ Len(n) # 3 \/ \E i \in 1..3 : ~AllDigits(n[i])
       THEN InvalidDate
       ELSE IF Len(pieces) = 2 /\ ~ValidTime(pieces[2])
       THEN InvalidDate
       ELSE IF /\ Len(n[1]) = 4 /\ Len(n[2]) = 2 /\ Len(n[3]) = 2
               /\ Char(date, 5) = "-" /\ Char(date, 8) = "-"
               /\ DigitsValue(n[2], 0) \in 1..12 /\ DigitsValue(n[3], 0) \in 1..31
       THEN ComposeDay(DigitsValue(n[1], 0), DigitsValue(n[2], 0), DigitsValue(n[3], 0))
       ELSE LegacyDate(DigitsValue(n[1], 0), DigitsValue(n[2], 0), DigitsValue(n[3], 0))

\* new Date(year, monthIndex, day) on numbers: no range is checked, MakeDay
\* carries whatever is out of range, a NaN argument gives an Invalid Date, and
\* a year in 0..99 is taken as 1900 + year.
NewDateYMD(y, monthIndex, d) ==
    IF y = NaN \/ monthIndex = NaN \/ d = NaN THEN InvalidDate
    ELSE MakeDay(IF y \in 0..99 THEN 1900 + y ELSE y, monthIndex + 1, d)

\* s - 1 on a string s: NaN stays NaN.
Minus1(x) == IF x = NaN THEN NaN ELSE x - 1

\* isNaN(d.getTime()) ? null : d
NullIfInvalid(d) == IF d.kind = "invalid" THEN Null ELSE d

\* parseTimestamp of v8.0.
parseTimestamp_v80(ts) ==
    IF ~Truthy(ts) THEN Null
    ELSE LET parts == Split(ts, TsDelims)
         IN IF Len(parts) < 3 THEN Null
            ELSE LET a == parts[1]
                     b == parts[2]
                     c == parts[3]
                     d == IF Gt(ParseInt(a), 12)
                          THEN NewDate(c \o "-" \o b \o "-" \o a)
                          ELSE NewDate(ts)
                 IN NullIfInvalid(d)

\* parseTimestamp of v7.5.
parseTimestamp_v75(ts) ==
    IF ~Truthy(ts) THEN Null
    ELSE LET parts == Split(ts, TsDelims)
         IN IF Len(parts) < 3 THEN Null
            ELSE LET a == parts[1]
                     b == parts[2]
                     c == parts[3]
                 IN IF Le(ParseInt(a), 12) /\ Le(ParseInt(b), 12) THEN Null
                    ELSE NullIfInvalid(
                             IF Gt(ParseInt(a), 12)
                             THEN NewDate(c \o "-" \o b \o "-" \o a)
                             ELSE NewDate(a \o "-" \o b \o "-" \o c))

\* toDate of v1: day/month/year handed to the numeric Date constructor.
toDate_v1(value) ==
    IF value = Undefined THEN Null
    ELSE LET parts == Split(value, TsDelims)
         IN IF Len(parts) < 3 THEN Null
            ELSE NewDateYMD(ToNumber(parts[3]), Minus1(ToNumber(parts[2])),
                            ToNumber(parts[1]))

\* toDate of v2: day/month/year rebuilt as "y-m-d" and parsed; the Date is
\* returned as it is, Invalid Date included.
toDate_v2(value) ==
    IF ~Truthy(value) THEN Null
    ELSE LET parts == Split(value, TsDelims)
         IN IF Len(parts) < 3 THEN Null
            ELSE NewDate(parts[3] \o "-" \o parts[2] \o "-" \o parts[1])


(***************************************************************************)
(* Column lookup                                                           *)
(***************************************************************************)

\* Array.prototype.findIndex over the normalized headers: the 0-based index
\* of the first match, -1 when there is none.
FindIndex(normalized, wanted) ==
    IF \E i \in 1..Len(normalized) : normalized[i] = wanted
    THEN (CHOOSE i \in 1..Len(normalized) :
              /\ normalized[i] = wanted
              /\ \A j \in 1..(i - 1) : normalized[j] # wanted) - 1
    ELSE -1

\* The normal form v8.0 compares: lower case, whitespace runs collapsed, trimmed.
Normalize_v80(h) == Trim(CollapseSpaces(ToLowerCase(h)))

\* The normal form v7.5 compares: lower case, trimmed.
Normalize_v75(h) == Trim(ToLowerCase(h))

findColumn_v80(headers, name) ==
    FindIndex([i \in 1..Len(headers) |-> Normalize_v80(headers[i])], Normalize_v80(name))

findColumn_v75(headers, name) ==
    FindIndex([i \in 1..Len(headers) |-> Normalize_v75(headers[i])], Normalize_v75(name))

\* String(n) of a number n >= 0.
RECURSIVE NumStr(_)
NumStr(n) ==
    IF n < 10 THEN Char(Digits, n + 1)
    ELSE NumStr(n \div 10) \o Char(Digits, (n % 10) + 1)

\* String(n).padStart(2, "0")
Pad2(n) == IF n < 10 THEN "0" \o NumStr(n) ELSE NumStr(n)

\* `${d.getFullYear()}-${String(d.getMonth() + 1).padStart(2, "0")}`
getMonthKey(d) == NumStr(d.y) \o "-" \o Pad2(d.m)

(***************************************************************************)
(* Period Filter: instants, withinRange, GET /period                       *)
(***************************************************************************)

RECURSIVE DaysBeforeYear(_)
DaysBeforeYear(y) ==
    IF y <= 1970 THEN 0
    ELSE DaysBeforeYear(y - 1) + (IF IsLeap(y - 1) THEN 366 ELSE 365)

RECURSIVE DaysBeforeMonth(_, _)
DaysBeforeMonth(y, m) ==
    IF m <= 1 THEN 0 ELSE DaysBeforeMonth(y, m - 1) + DaysInMonth(y, m - 1)

\* An instant: whole days since 1970-01-01 and milliseconds into the day.
Instant(date, ms) ==
    [day |-> DaysBeforeYear(date.y) + DaysBeforeMonth(date.y, date.m) + date.d - 1,
     ms |-> ms]

InstantLeq(s, t) == s.day < t.day \/ (s.day = t.day /\ s.ms <= t.ms)

\* Date.prototype.getTime of a parsed cell: its day at 00:00.
TimeOf(date) == Instant(date, 0)

\* The wall clock a handler sees: `now = new Date()`, then `cutoff = new
\* Date()` a moment later (skew milliseconds later, 0 when both fall in the
\* same millisecond).
ClockNow(clock) == Instant(clock.date, clock.ms)

\* cutoff.setDate(now.getDate() - days): the day of the month is set to
\* now's less days, MakeDay carrying it into earlier months; cutoff keeps its
\* own time of day.
Cutoff(clock, days) ==
    Instant(MakeDay(clock.date.y, clock.date.m, clock.date.d - days),
            clock.ms + clock.skew)

\* date && date >= from && date <= to: null is falsy, and every comparison
\* with an Invalid Date is false.
withinRange(date, from, to) ==
    /\ date.kind = "date"
    /\ InstantLeq(from, TimeOf(date))
    /\ InstantLeq(TimeOf(date), to)

\* An HTTP response.
Json(status, body) == [status |-> status, body |-> body]

\* The awaited spreadsheets.values.get: the grid, or the rejection it throws.
Fetched(vals) == Ok(vals)
FetchError == Throw("fetch failed")

\* readSheet on the outcome of the fetch: a rejection propagates.
readSheetOn(res) == IF res.kind = "throw" THEN res ELSE readSheet(res.val)

\* GET /period of v7.5.
period_v75(res, query, clock) ==
    LET days == ParseInt(OrElse(query.days, "60"))
        sheet == readSheetOn(res)
    IN IF sheet.kind = "throw" THEN Json(500, [error |-> sheet.msg])
       ELSE LET headers == sheet.val.headers
                rows == sheet.val.rows
                tsIndex == findColumn_v75(headers, "Timestamp")
                now == ClockNow(clock)
                cutoff == Cutoff(clock, days)
                Match(r) == withinRange(parseTimestamp_v75(At(r, tsIndex)), cutoff, now)
            IN Json(200, [range_days |-> days,
                          visitors |-> Cardinality({k \in 1..Len(rows) : Match(rows[k])}),
                          total_rows |-> Len(rows)])

\* readSheet of v2: no trimming, no padding; an empty sheet gives undefined
\* headers and no rows.
readSheet_v2(res) ==
    IF res.kind = "throw" THEN res
    ELSE Ok([headers |-> IF Len(res.val) = 0 THEN Undefined ELSE res.val[1],
             rows |-> IF Len(res.val) = 0 THEN <<>> ELSE SubSeq(res.val, 2, Len(res.val))])

\* GET /period of v2: the timestamp is column 0.
period_v2(res, query, clock) ==
    LET days == ParseInt(OrElse(query.days, "7"))
        sheet == readSheet_v2(res)
    IN IF sheet.kind = "throw" THEN Json(500, [error |-> "Failed to get period data"])
       ELSE LET rows == sheet.val.rows
                now == ClockNow(clock)
                cutoff == Cutoff(clock, days)
                Match(r) == withinRange(toDate_v2(At(r, 0)), cutoff, now)
            IN Json(200, [days |-> days,
                          count |-> Cardinality({k \in 1..Len(rows) : Match(rows[k])}),
                          total_rows |-> Len(rows)])

(***************************************************************************)
(* Aggregator: getRows, countBy (v3), GET /cross (v1, v2)                  *)
(***************************************************************************)

\* Object.fromEntries(r.map((v, i) => [headers[i], v])): the cells of a row
\* keyed by the header above them; a key met twice keeps the later cell, and
\* a cell under no header is keyed "undefined".
RecordOf(headers, row) ==
    LET Key(i) == Str(At(headers, i - 1))
    IN [h \in {Key(i) : i \in 1..Len(row)} |->
           row[CHOOSE i \in 1..Len(row) :
                   /\ Key(i) = h
                   /\ \A j \in (i + 1)..Len(row) : Key(j) # h]]

\* r[key] on a record.
Get(rec, key) == IF key \in DOMAIN rec THEN rec[key] ELSE Undefined

\* getRows of v3: no records when the sheet has at most its header row.
getRows(res) ==
    IF res.kind = "throw" THEN res
    ELSE IF Len(res.val) <= 1 THEN Ok(<<>>)
    ELSE Ok([k \in 1..(Len(res.val) - 1) |-> RecordOf(res.val[1], res.val[k + 1])])

\* A property name that is an array index ("0", "7", "10": canonical digits).
IsIndexKey(s) == AllDigits(s) /\ (s = "0" \/ Char(s, 1) # "0")

\* An object used as a counter, as the sequence Object.entries lists it:
\* index keys first, in ascending numeric order, then the other keys in the
\* order they were created.
EntryBefore(e, label) ==
    IF IsIndexKey(label)
    THEN IsIndexKey(e.label) /\ DigitsValue(e.label, 0) < DigitsValue(label, 0)
    ELSE TRUE

\* obj[label] = (obj[label] || 0) + 1
Increment(obj, label) ==
    IF \E i \in 1..Len(obj) : obj[i].label = label
    THEN [i \in 1..Len(obj) |->
             IF obj[i].label = label
             THEN [label |-> label, count |-> obj[i].count + 1]
             ELSE obj[i]]
    ELSE LET n == Cardinality({i \in 1..Len(obj) : EntryBefore(obj[i], label)})
         IN SubSeq(obj, 1, n) \o <<[label |-> label, count |-> 1]>>
            \o SubSeq(obj, n + 1, Len(obj))

\* Array.prototype.sort((a, b) => b[1] - a[1]): descending by count, stable.
InsertByCount(sorted, e) ==
    LET n == Cardinality({i \in 1..Len(sorted) : sorted[i].count >= e.count})
    IN SubSeq(sorted, 1, n) \o <<e>> \o SubSeq(sorted, n + 1, Len(sorted))

RECURSIVE SortByCount(_)
SortByCount(entries) ==
    IF Len(entries) = 0 THEN entries
    ELSE InsertByCount(SortByCount(SubSeq(entries, 1, Len(entries) - 1)),
                       entries[Len(entries)])

\* (r[key] || "Unknown").trim()
CountLabel(v) == Trim(OrElse(v, "Unknown"))

RECURSIVE CountInto(_, _, _)
CountInto(counts, data, key) ==
    IF Len(data) = 0 THEN counts
    ELSE CountInto(Increment(counts, CountLabel(Get(data[1], key))),
                   SubSeq(data, 2, Len(data)), key)

\* countBy of GET /analysis (v3).
countBy(data, key) == SortByCount(CountInto(<<>>, data, key))

\* The columns GET /cross reads: industry, income, configuration (v1), and
\* the requirement too (v2).
CrossColumns_v1 == <<12, 13, 10>>
CrossColumns_v2 == <<12, 13, 10, 6>>

\* r[col] || "Unknown"
CrossLabelBug(v) == IF v = Undefined THEN "Unknown" ELSE v

CrossLabel(v) == OrElse(v, "Unknown")

\* `${industry}_${income}_${config}` and so on.
RECURSIVE JoinLabels(_)
JoinLabels(labels) ==
    IF Len(labels) = 1 THEN labels[1]
    ELSE labels[1] \o "_" \o JoinLabels(SubSeq(labels, 2, Len(labels)))

CrossKey(r, cols) == JoinLabels([i \in 1..Len(cols) |-> CrossLabel(At(r, cols[i]))])

RECURSIVE CrossInto(_, _, _)
CrossInto(results, rows, cols) ==
    IF Len(rows) = 0 THEN results
    ELSE CrossInto(Increment(results, CrossKey(rows[1], cols)),
                   SubSeq(rows, 2, Len(rows)), cols)

\* readSheet of v1: as v2's, but destructuring an absent `values` throws.
readSheet_v1(res) ==
    IF res.kind = "throw" THEN res
    ELSE IF Len(res.val) = 0 THEN Throw("undefined is not iterable")
    ELSE Ok([headers |-> res.val[1], rows |-> SubSeq(res.val, 2, Len(res.val))])

\* GET /cross of v1 and of v2.
cross(sheet, cols, message) ==
    IF sheet.kind = "throw" THEN Json(500, [error |-> "Failed cross analysis"])
    ELSE LET results == CrossInto(<<>>, sheet.val.rows, cols)
         IN Json(200, [message |-> message,
                       breakdown |-> [i \in 1..Len(results) |->
                                         [key |-> results[i].label,
                                          count |-> results[i].count]]])

cross_v1(res) ==
    cross(readSheet_v1(res), CrossColumns_v1,
          "Cross-analysis across industry, income, and configuration")

cross_v2(res) ==
    cross(readSheet_v2(res), CrossColumns_v2,
          "Cross-analysis across industry, income, configuration, and requirement")

(***************************************************************************)
(* Sentiment Classifier: getSentiment (v8.0, v2), GET /remarks (v2)        *)
(***************************************************************************)

\* /booked|positive|interested|good/ and /follow|call|pending|waiting/
PositiveWords == {"booked", "positive", "interested", "good"}
FollowUpWords == {"follow", "call", "pending", "waiting"}

IncludesAny(s, words) == \E w \in words : Includes(s, w)

\* getSentiment of v8.0.
getSentiment_v80(t) ==
    IF ~Truthy(t) THEN "Neutral"
    ELSE LET s == ToLowerCase(t)
         IN IF IncludesAny(s, PositiveWords) THEN "Positive"
            ELSE IF IncludesAny(s, FollowUpWords) THEN "Follow-up Required"
            ELSE "Neutral"

getSentiment_v2FollowUpFirst(text) ==
    LET t == ToLowerCase(text)
    IN IF t = "" THEN "Neutral"
       ELSE IF IncludesAny(t, FollowUpWords) THEN "Follow-up Required"
       ELSE IF IncludesAny(t, PositiveWords) THEN "Positive"
       ELSE "Neutral"

\* getSentiment of v2. It lower-cases before it tests for emptiness, so an
\* undefined argument would throw; its one caller hands it a template
\* literal, which is always a string.
getSentiment_v2(text) ==
    LET t == ToLowerCase(text)
    IN IF t = "" THEN "Neutral"
       ELSE IF IncludesAny(t, PositiveWords) THEN "Positive"
       ELSE IF IncludesAny(t, FollowUpWords) THEN "Follow-up Required"
       ELSE "Neutral"

\* The columns GET /remarks reads.
NameCol == 2
VisitCol == 15
FollowUpCol == 19

\* One entry of the remarks list, before the filter.
RemarkOf(r) ==
    [name |-> At(r, NameCol),
     siteVisitRemarks |-> OrElse(At(r, VisitCol), ""),
     followUp |-> OrElse(At(r, FollowUpCol), ""),
     sentiment |-> getSentiment_v2(Str(At(r, VisitCol)) \o " " \o Str(At(r, FollowUpCol)))]

\* Array.prototype.filter(r => r.siteVisitRemarks || r.followUp)
RECURSIVE WithRemarks(_)
WithRemarks(list) ==
    IF Len(list) = 0 THEN list
    ELSE IF Truthy(list[1].siteVisitRemarks) \/ Truthy(list[1].followUp)
         THEN <<list[1]>> \o WithRemarks(SubSeq(list, 2, Len(list)))
         ELSE WithRemarks(SubSeq(list, 2, Len(list)))

\* The keys of the summary of /remarks.
SentimentLabels == {"Positive", "Follow-up Required", "Neutral"}

CountSentiment(remarks, label) ==
    Cardinality({i \in 1..Len(remarks) : remarks[i].sentiment = label})

\* GET /remarks of v2.
remarks_v2(res) ==
    LET sheet == readSheet_v2(res)
    IN IF sheet.kind = "throw" THEN Json(500, [error |-> "Failed to get remarks"])
       ELSE LET rows == sheet.val.rows
                remarks == WithRemarks([k \in 1..Len(rows) |-> RemarkOf(rows[k])])
            IN Json(200, [summary |-> [label \in SentimentLabels |->
                                          CountSentiment(remarks, label)],
                          remarks |-> remarks])

(***************************************************************************)
(* The other handlers of v7.5, and GET /analysis of v3                     *)
(***************************************************************************)

\* The header names the handlers of v7.5 look up.
TimestampColumn == "Timestamp"
SourceColumn == "How did you come to Know about us"
HandledByColumn == "Site Visit handled by"
SalesColumn == "Sales person"

\* names.forEach(n => { const clean = n.trim(); if (clean) handlers[clean]++ })
RECURSIVE CountNames(_, _)
CountNames(handlers, names) ==
    IF Len(names) = 0 THEN handlers
    ELSE CountNames(IF Trim(names[1]) # ""
                    THEN Increment(handlers, Trim(names[1]))
                    ELSE handlers,
                    SubSeq(names, 2, Len(names)))

RECURSIVE CountHandlers(_, _, _, _)
CountHandlers(handlers, rows, handledByCol, salesCol) ==
    IF Len(rows) = 0 THEN handlers
    ELSE CountHandlers(
             CountNames(handlers,
                        Split(Str(At(rows[1], handledByCol)) \o " "
                              \o Str(At(rows[1], salesCol)), {",", "&"})),
             SubSeq(rows, 2, Len(rows)), handledByCol, salesCol)

\* GET /handlers of v7.5.
handlers_v75(res) ==
    LET sheet == readSheetOn(res)
    IN IF sheet.kind = "throw" THEN Json(500, [error |-> sheet.msg])
       ELSE LET headers == sheet.val.headers
                rows == sheet.val.rows
                handledByCol == findColumn_v75(headers, HandledByColumn)
                salesCol == findColumn_v75(headers, SalesColumn)
                sorted == SortByCount(CountHandlers(<<>>, rows, handledByCol, salesCol))
            IN Json(200, [total_unique |-> Len(sorted),
                          leaderboard |-> [i \in 1..Len(sorted) |->
                                              [name |-> sorted[i].label,
                                               visits |-> sorted[i].count]]])

\* GET /monthly of v7.5.
monthly_v75(res, query) ==
    LET month == query.month
        sheet == readSheetOn(res)
    IN IF sheet.kind = "throw" THEN Json(500, [error |-> sheet.msg])
       ELSE LET headers == sheet.val.headers
                rows == sheet.val.rows
                tsIndex == findColumn_v75(headers, TimestampColumn)
                Match(r) ==
                    LET d == parseTimestamp_v75(At(r, tsIndex))
                    IN d.kind = "date" /\ getMonthKey(d) = month
            IN Json(200, [month |-> month,
                          visitors |-> Cardinality({k \in 1..Len(rows) : Match(rows[k])})])

RECURSIVE CountSources(_, _, _)
CountSources(sources, rows, srcCol) ==
    IF Len(rows) = 0 THEN sources
    ELSE LET val == Trim(OrElse(At(rows[1], srcCol), ""))
         IN CountSources(IF val # "" THEN Increment(sources, val) ELSE sources,
                         SubSeq(rows, 2, Len(rows)), srcCol)

\* GET /sources of v7.5.
sources_v75(res) ==
    LET sheet == readSheetOn(res)
    IN IF sheet.kind = "throw" THEN Json(500, [error |-> sheet.msg])
       ELSE LET srcCol == findColumn_v75(sheet.val.headers, SourceColumn)
            IN Json(200, [sources |-> CountSources(<<>>, sheet.val.rows, srcCol)])

\* GET /analysis of v3, its record count and its sources breakdown.
analysis_v3(res) ==
    LET data == getRows(res)
    IN IF data.kind = "throw" THEN Json(500, [error |-> "Failed to analyze data"])
       ELSE Json(200, [total_records |-> Len(data.val),
                       sources |-> countBy(data.val, SourceColumn)])

(***************************************************************************)
(* GET /salesperson of v2 and v1, GET /verify and /socialmedia of v8.0     *)
(***************************************************************************)

\* const spCol = 17, siteVisitCol = 16
SpCol == 17
SiteVisitCol == 16

\* if (!name) return res.status(400).json({ error: "Missing name" })
MissingName(query) == ~Truthy(query.name)

\* r[col] && r[col].toLowerCase().includes(name.toLowerCase())
NameIn(cell, name) == Truthy(cell) /\ Includes(ToLowerCase(cell), ToLowerCase(name))

\* GET /salesperson from `await readSheet()` on; sheet is what readSheet gave.
salesperson(sheet, query) ==
    IF sheet.kind = "throw" THEN Json(500, [error |-> "Failed to get salesperson data"])
    ELSE LET rows == sheet.val.rows
             name == query.name
             Match(r) == NameIn(At(r, SpCol), name) \/ NameIn(At(r, SiteVisitCol), name)
         IN Json(200, [salesperson |-> name,
                       customers |-> Cardinality({k \in 1..Len(rows) : Match(rows[k])})])

salesperson_v2(res, query) == salesperson(readSheet_v2(res), query)
salesperson_v1(res, query) == salesperson(readSheet_v1(res), query)

\* GET /verify of v8.0 has no try/catch: what readSheet throws leaves the
\* handler as a rejected promise, and no response is sent.
verify_v80(res) ==
    LET sheet == readSheetOn(res)
    IN IF sheet.kind = "throw" THEN sheet
       ELSE Json(200, [headers |-> sheet.val.headers,
                       total_columns |-> Len(sheet.val.headers)])

\* The rows /socialmedia keeps, as the entries it pushes to `data`.
RECURSIVE SocialData(_, _, _, _)
SocialData(rows, idx, sourceName, months) ==
    IF Len(rows) = 0 THEN <<>>
    ELSE LET r == rows[1]
             rest == SocialData(SubSeq(rows, 2, Len(rows)), idx, sourceName, months)
             src == ToLowerCase(OrElse(At(r, idx.src), ""))
             d == parseTimestamp_v80(At(r, idx.ts))
             text == Str(At(r, idx.remark)) \o " " \o Str(At(r, idx.follow))
         IN IF ~Includes(src, ToLowerCase(sourceName)) THEN rest
            ELSE IF d.kind = "null" THEN rest
            ELSE IF \A i \in 1..Len(months) : months[i] # getMonthKey(d) THEN rest
            ELSE <<[timestamp |-> At(r, idx.ts),
                    handler |-> OrElse(At(r, idx.handled), "")
                                \o (IF Truthy(At(r, idx.sales))
                                    THEN " / " \o At(r, idx.sales) ELSE ""),
                    income |-> OrElse(At(r, idx.income), "Unknown"),
                    remark |-> Trim(text),
                    sentiment |-> getSentiment_v80(text)]>> \o rest

\* e.handler.split(/,|&|\//).map(x => x.trim()).filter(Boolean), counted.
RECURSIVE ByHandler(_, _)
ByHandler(byHandler, data) ==
    IF Len(data) = 0 THEN byHandler
    ELSE ByHandler(CountNames(byHandler, Split(data[1].handler, {",", "&", "/"})),
                   SubSeq(data, 2, Len(data)))

RECURSIVE ByIncome(_, _)
ByIncome(byIncome, data) ==
    IF Len(data) = 0 THEN byIncome
    ELSE ByIncome(Increment(byIncome, data[1].income), SubSeq(data, 2, Len(data)))

\* GET /socialmedia of v8.0.
socialmedia_v80(res, query) ==
    LET months == Split(OrElse(query.months, "2025-10,2025-11"), {","})
        sourceName == OrElse(query.source, "social media")
        sheet == readSheetOn(res)
    IN IF sheet.kind = "throw" THEN Json(500, [error |-> sheet.msg])
       ELSE LET headers == sheet.val.headers
                idx == [ts |-> findColumn_v80(headers, "Timestamp"),
                        src |-> findColumn_v80(headers, "How did you come to Know about us"),
                        handled |-> findColumn_v80(headers, "Site Visit handled by"),
                        sales |-> findColumn_v80(headers, "Sales person"),
                        income |-> findColumn_v80(headers, "Current annual income"),
                        remark |-> findColumn_v80(headers, "site visit Remarks"),
                        follow |-> findColumn_v80(headers, "Follow up remarks")]
                data == SocialData(sheet.val.rows, idx, sourceName, months)
                byHandler == ByHandler(<<>>, data)
                byIncome == ByIncome(<<>>, data)
            IN Json(200, [months |-> months,
                          source |-> sourceName,
                          total |-> Len(data),
                          handlers |-> [i \in 1..Len(byHandler) |->
                                           [handler |-> byHandler[i].label,
                                            visits |-> byHandler[i].count]],
                          income_breakdown |-> [i \in 1..Len(byIncome) |->
                                                   [income |-> byIncome[i].label,
                                                    count |-> byIncome[i].count]],
                          sentiment_summary |-> [label \in SentimentLabels |->
                                                    Cardinality({i \in 1..Len(data) :
                                                        data[i].sentiment = label})],
                          remarks |-> data])

\* What the handler of a request does before it awaits readSheet(): the
\* response it sends at once, if any.
Rejected(version, endpoint, query) == endpoint = "/salesperson" /\ MissingName(query)

\* What the handler of a request comes to once its fetch has ended in res:
\* the response it sends, or the rejection it leaves unhandled.
Respond(version, endpoint, query, res, clock) ==
    CASE endpoint = "/period" -> period_v75(res, query, clock)
      [] endpoint = "/handlers" -> handlers_v75(res)
      [] endpoint = "/monthly" -> monthly_v75(res, query)
      [] endpoint = "/sources" -> sources_v75(res)
      [] endpoint = "/analysis" -> analysis_v3(res)
      [] endpoint = "/verify" -> verify_v80(res)
      [] endpoint = "/socialmedia" -> socialmedia_v80(res, query)
      [] endpoint = "/salesperson" /\ version = "v2" -> salesperson_v2(res, query)
      [] endpoint = "/salesperson" /\ version = "v1" -> salesperson_v1(res, query)

(***************************************************************************)
(* Bounds and input sets                                                   *)
(***************************************************************************)

MaxCols == 2
MaxRows == 2

SeqsUpTo(S, n) == UNION {[1..k -> S] : k \in 0..n}

HeaderCells == {"", " A "}
DataCells == {"x", " y"}

\* Raw grids with a header row, for the normalizer.
RawGrids ==
    {<<h>> \o rs : h \in SeqsUpTo(HeaderCells, MaxCols),
                   rs \in SeqsUpTo(SeqsUpTo(DataCells, MaxCols), MaxRows)}

\* Timestamp cells: two numeric fields and a year, with or without a time,
\* and the cells that are not timestamps at all.
TsFields == {"00", "02", "04", "4", "12", "13", "29", "31", "45"}
TsYears == {"2024", "2025"}
TsTimes == {"", " 10:00:00"}

TsTexts ==
    {a \o "/" \o b \o "/" \o y \o t : a \in TsFields, b \in TsFields,
                                     y \in TsYears, t \in TsTimes}
    \cup {Undefined, "", "13/04", "n/a", "a/b/c"}

\* How the sheet shows a timestamp: DD/MM/YYYY hh:mm:ss.
FormatTs(date, time) ==
    Pad2(date.d) \o "/" \o Pad2(date.m) \o "/" \o NumStr(date.y) \o " " \o time

\* hh:mm:ss as milliseconds into the day.
TimeMs(t) ==
    LET p == Split(t, {":"})
    IN ((DigitsValue(p[1], 0) * 60 + DigitsValue(p[2], 0)) * 60 + DigitsValue(p[3], 0)) * 1000

\* The day `back` days before the clock's.
DaysBefore(clock, back) == MakeDay(clock.date.y, clock.date.m, clock.date.d - back)

MaxPeriodRows == 2

\* Clocks: a day late in a month and one early in it (so that the window
\* reaches into the month before), at midnight and in the morning.
ClockDates == {DateOf(2025, 3, 20), DateOf(2025, 3, 2)}
ClockTimes == {"00:00:00", "10:00:00"}
Clocks ==
    {[date |-> d, time |-> t, ms |-> TimeMs(t), skew |-> k] :
        d \in ClockDates, t \in ClockTimes, k \in {0, 1}}

\* ?days= of the query; Undefined when the query omits it.
DaysQueries == {"7", "1", Undefined}

\* The number of days /period of `version` looks back for a query.
WindowDays(version, query) ==
    ParseInt(OrElse(query.days, IF version = "period_v75" THEN "60" ELSE "7"))

\* Timestamp cells around the window of n days before the clock: the clock's
\* own instant, the instant exactly n days before it, n + 1 days before it,
\* one day before it, and cells that hold no timestamp.
PeriodCells(clock, n) ==
    {FormatTs(DaysBefore(clock, back), clock.time) : back \in {0, 1, n, n + 1}}
    \cup {"", "n/a"}

MaxCountRows == 3

\* Sheets for countBy: one column, headed by the column countBy is asked for
\* or by another, and cells that are empty, blank, padded, plain or numeric;
\* a row may also lack the cell.
CountKey == "Requirements"
CountHeaders == {<<CountKey>>, <<"Other">>}
CountCells == {"", " ", "a", " a", "b", "2", "10"}
CountSheets ==
    {<<h>> \o rs : h \in CountHeaders,
                   rs \in SeqsUpTo({<<>>} \cup {<<c>> : c \in CountCells}, MaxCountRows)}

MaxCrossRows == 2

\* A row as the Sheets API returns it: trailing empty cells are left out.
RECURSIVE DropTrailingEmpty(_)
DropTrailingEmpty(row) ==
    IF Len(row) > 0 /\ row[Len(row)] = ""
    THEN DropTrailingEmpty(SubSeq(row, 1, Len(row) - 1))
    ELSE row

\* Sheets for /cross: rows of 14 cells of which the requirement (column 6),
\* the configuration (10), the industry (12) and the income (13) vary.
CrossRow(rqm, cfg, ind, inc) ==
    DropTrailingEmpty(
        [i \in 1..14 |->
            CASE i = 7 -> rqm
              [] i = 11 -> cfg
              [] i = 13 -> ind
              [] i = 14 -> inc
              [] OTHER -> "-"])

CrossRows ==
    {CrossRow(rqm, cfg, ind, inc) :
        rqm \in {"", "x"}, cfg \in {"", "Unknown"},
        ind \in {"", "a", "a_a"}, inc \in {"", "a", "a_a"}}

CrossSheets ==
    {<<[i \in 1..14 |-> "h"]>> \o rs : rs \in SeqsUpTo(CrossRows, MaxCrossRows)}

MaxRemarkRows == 2

\* Remark cells: none, a positive word, a follow-up word, neither.
VisitCells == {"", "Interested", "call later", "not now"}
FollowUpCells == {"", "Pending", "BOOKED"}

\* Sheets for /remarks: rows of 20 cells (A:T) of which the site visit
\* remarks (column 15) and the follow-up remarks (column 19) vary.
RemarkRow(visit, follow) ==
    DropTrailingEmpty(
        [i \in 1..20 |->
            CASE i = 3 -> "N"
              [] i = 16 -> visit
              [] i = 20 -> follow
              [] OTHER -> "-"])

RemarkSheets ==
    {<<[i \in 1..20 |-> "h"]>> \o rs :
        rs \in SeqsUpTo({RemarkRow(v, f) : v \in VisitCells, f \in FollowUpCells},
                        MaxRemarkRows)}

\* Texts for getSentiment: what the handlers build from two cells, an empty
\* text, and (for v8.0, which tests for it) an absent one.
SentimentTexts ==
    {v \o " " \o f : v \in VisitCells \cup {"undefined"}, f \in FollowUpCells \cup {"undefined"}}
    \cup {"", "He was very interested but needs a follow up call"}

MaxHeaders == 2

\* Header rows for findColumn: spellings of "Sales person" that differ in
\* case, in surrounding blanks and in the blanks inside, and other headers.
HeaderSpellings ==
    {"Sales person", " SALES PERSON ", "sales  person", "Sales\tperson",
     "Salesperson", "Timestamp"}

ColumnQueries ==
    [headers : SeqsUpTo(HeaderSpellings, MaxHeaders), name : {"Sales person", "timestamp "}]

MaxSheetRows == 1

\* The sheet of the service: nothing at all, or a header row with all four
\* columns the handlers look up or with some of them missing, and data rows.
AllColumns == <<TimestampColumn, SourceColumn, HandledByColumn, SalesColumn>>

KeptColumns == {{1, 2, 3, 4}, {2, 3, 4}, {1, 3, 4}, {1, 2}}

\* The cells of `tuple` under the columns in `kept`, in column order.
RECURSIVE Keep(_, _, _)
Keep(tuple, kept, i) ==
    IF i > Len(tuple) THEN <<>>
    ELSE (IF i \in kept THEN <<tuple[i]>> ELSE <<>>) \o Keep(tuple, kept, i + 1)

SheetTuples ==
    {<<"13/03/2025 10:00:00", "Social Media", "Asha & Ravi", "Ravi">>,
     <<"20/03/2025 09:30:00", "social media", "Asha/Ravi", "">>,
     <<"n/a", "", "Ravi", "Asha">>}

\* A sheet as wide as the layout /salesperson of v2 and v1 reads by position.
WideHeader ==
    [i \in 1..(SpCol + 1) |->
        IF i = 1 THEN TimestampColumn
        ELSE IF i = SiteVisitCol + 1 THEN HandledByColumn
        ELSE IF i = SpCol + 1 THEN SalesColumn
        ELSE "-"]

WideRow ==
    [i \in 1..(SpCol + 1) |->
        IF i = 1 THEN "13/03/2025 10:00:00"
        ELSE IF i = SiteVisitCol + 1 THEN "Asha & Ravi"
        ELSE IF i = SpCol + 1 THEN "Ravi"
        ELSE ""]

Sheets ==
    {NoValues, <<WideHeader, WideRow>>} \cup
    {<<Keep(AllColumns, kept, 1)>> \o [k \in 1..Len(rs) |-> DropTrailingEmpty(Keep(rs[k], kept, 1))] :
        kept \in KeptColumns, rs \in SeqsUpTo(SheetTuples, MaxSheetRows)}

\* Requests: the endpoints of each version, with their queries.
Requests ==
    [version : {"v7.5"}, endpoint : {"/period"}, query : [days : {"7", Undefined}]]
    \cup [version : {"v7.5"}, endpoint : {"/monthly"}, query : [month : {"2025-03", Undefined}]]
    \cup [version : {"v7.5"}, endpoint : {"/handlers", "/sources"}, query : {<<>>}]
    \cup [version : {"v3"}, endpoint : {"/analysis"}, query : {<<>>}]
    \cup [version : {"v8.0"}, endpoint : {"/verify"}, query : {<<>>}]
    \cup [version : {"v8.0"}, endpoint : {"/socialmedia"},
          query : [months : {"2025-03", Undefined}, source : {Undefined}]]
    \cup [version : {"v2", "v1"}, endpoint : {"/salesperson"},
          query : [name : {"ravi", Undefined}]]

\* The clock of the request machine.
ServiceClock == [date |-> DateOf(2025, 3, 20), time |-> "10:00:00",
                 ms |-> TimeMs("10:00:00"), skew |-> 0]

Reqs == {"r1", "r2"}

(***************************************************************************)
(* Pure-function harness                                                   *)
(***************************************************************************)

NoRequests ==
    /\ values = NoValues
    /\ pc = <<>>
    /\ req = <<>>
    /\ resp = <<>>
    /\ fetches = <<>>

Apply(name, result) ==
    /\ fn = "none"
    /\ fn' = name
    /\ out' = result
    /\ UNCHANGED <<arg, values, pc, req, resp, fetches>>

InitNormalize ==
    /\ fn = "none"
    /\ arg \in RawGrids
    /\ out = Undefined
    /\ NoRequests

ApplyReadSheet == Apply("readSheet", readSheet(arg))

NextNormalize == ApplyReadSheet

SpecNormalize == InitNormalize /\ [][NextNormalize]_vars

\* The normalizers of all versions, on grids with and without a header row.
InitGrids ==
    /\ fn = "none"
    /\ arg \in RawGrids \cup {NoValues}
    /\ out = Undefined
    /\ NoRequests

ApplyReadSheet80 == Apply("readSheet", readSheetOn(Fetched(arg)))
ApplyReadSheet2 == Apply("readSheet_v2", readSheet_v2(Fetched(arg)))
ApplyReadSheet1 == Apply("readSheet_v1", readSheet_v1(Fetched(arg)))

NextGrids == ApplyReadSheet80 \/ ApplyReadSheet2 \/ ApplyReadSheet1

SpecGrids == InitGrids /\ [][NextGrids]_vars

InitTimestamp ==
    /\ fn = "none"
    /\ arg \in TsTexts
    /\ out = Undefined
    /\ NoRequests

ApplyParseTimestamp80 == Apply("parseTimestamp_v80", parseTimestamp_v80(arg))
ApplyParseTimestamp75 == Apply("parseTimestamp_v75", parseTimestamp_v75(arg))
ApplyToDate1 == Apply("toDate_v1", toDate_v1(arg))
ApplyToDate2 == Apply("toDate_v2", toDate_v2(arg))

NextTimestamp ==
    \/ ApplyParseTimestamp80
    \/ ApplyParseTimestamp75
    \/ ApplyToDate1
    \/ ApplyToDate2

SpecTimestamp == InitTimestamp /\ [][NextTimestamp]_vars

\* A sheet with the single column Timestamp, a query and a clock.
InitPeriod ==
    /\ fn = "none"
    /\ \E clock \in Clocks, q \in DaysQueries, version \in {"period_v75", "period_v2"} :
          \E cells \in SeqsUpTo(PeriodCells(clock, WindowDays(version, [days |-> q])),
                                MaxPeriodRows) :
              arg = [version |-> version,
                     clock |-> clock,
                     query |-> [days |-> q],
                     values |-> <<(<<"Timestamp">>)>> \o [k \in 1..Len(cells) |-> <<cells[k]>>]]
    /\ out = Undefined
    /\ NoRequests

ApplyPeriod75 ==
    /\ arg.version = "period_v75"
    /\ Apply("period_v75", period_v75(Fetched(arg.values), arg.query, arg.clock))

ApplyPeriod2 ==
    /\ arg.version = "period_v2"
    /\ Apply("period_v2", period_v2(Fetched(arg.values), arg.query, arg.clock))

NextPeriod == ApplyPeriod75 \/ ApplyPeriod2

SpecPeriod == InitPeriod /\ [][NextPeriod]_vars

InitAggregate ==
    /\ fn = "none"
    /\ arg \in CountSheets \cup CrossSheets
    /\ out = Undefined
    /\ NoRequests

ApplyCountBy ==
    /\ Len(arg[1]) = 1
    /\ Apply("countBy", countBy(getRows(Fetched(arg)).val, CountKey))

ApplyCross1 ==
    /\ Len(arg[1]) > 1
    /\ Apply("cross_v1", cross_v1(Fetched(arg)))

ApplyCross2 ==
    /\ Len(arg[1]) > 1
    /\ Apply("cross_v2", cross_v2(Fetched(arg)))

NextAggregate == ApplyCountBy \/ ApplyCross1 \/ ApplyCross2

SpecAggregate == InitAggregate /\ [][NextAggregate]_vars

InitSentiment ==
    /\ fn = "none"
    /\ \/ arg \in [kind : {"sheet"}, values : RemarkSheets]
       \/ arg \in [kind : {"text"}, text : SentimentTexts \cup {Undefined}]
    /\ out = Undefined
    /\ NoRequests

ApplySentiment80 ==
    /\ arg.kind = "text"
    /\ Apply("getSentiment_v80", getSentiment_v80(arg.text))

ApplySentiment2 ==
    /\ arg.kind = "text"
    /\ arg.text # Undefined
    /\ Apply("getSentiment_v2", getSentiment_v2(arg.text))

ApplyRemarks2 ==
    /\ arg.kind = "sheet"
    /\ Apply("remarks_v2", remarks_v2(Fetched(arg.values)))

NextSentiment == ApplySentiment80 \/ ApplySentiment2 \/ ApplyRemarks2

SpecSentiment == InitSentiment /\ [][NextSentiment]_vars

InitColumns ==
    /\ fn = "none"
    /\ arg \in ColumnQueries
    /\ out = Undefined
    /\ NoRequests

ApplyFindColumn80 == Apply("findColumn_v80", findColumn_v80(arg.headers, arg.name))
ApplyFindColumn75 == Apply("findColumn_v75", findColumn_v75(arg.headers, arg.name))

NextColumns == ApplyFindColumn80 \/ ApplyFindColumn75

SpecColumns == InitColumns /\ [][NextColumns]_vars

(***************************************************************************)
(* The service: requests, each one fetch and one response                  *)
(***************************************************************************)

NoRequest == [version |-> "none", endpoint |-> "none", query |-> <<>>, fetched |-> "no"]

Init ==
    /\ fn = "none"
    /\ arg = Undefined
    /\ out = Undefined
    /\ values \in Sheets
    /\ pc = [r \in Reqs |-> "idle"]
    /\ req = [r \in Reqs |-> NoRequest]
    /\ resp = [r \in Reqs |-> <<>>]
    /\ fetches = [r \in Reqs |-> 0]

\* A request arrives and its handler runs up to `await readSheet()`: either
\* it refuses the query and answers at once, or the call of
\* spreadsheets.values.get is issued.
Receive(r) ==
    /\ pc[r] = "idle"
    /\ \E q \in Requests :
          IF Rejected(q.version, q.endpoint, q.query)
          THEN /\ req' = [req EXCEPT ![r] = [version |-> q.version, endpoint |-> q.endpoint,
                                             query |-> q.query, fetched |-> "no"]]
               /\ resp' = [resp EXCEPT ![r] = Append(@, Json(400, [error |-> "Missing name"]))]
               /\ pc' = [pc EXCEPT ![r] = "done"]
               /\ fetches' = fetches
          ELSE /\ req' = [req EXCEPT ![r] = [version |-> q.version, endpoint |-> q.endpoint,
                                             query |-> q.query, fetched |-> "pending"]]
               /\ resp' = resp
               /\ pc' = [pc EXCEPT ![r] = "fetching"]
               /\ fetches' = [fetches EXCEPT ![r] = @ + 1]
    /\ UNCHANGED <<fn, arg, out, values>>

\* The handler of r resumes after its await and runs to its end.  It sends
\* its response; or, without a try/catch, its promise rejects unhandled
\* and r is never answered: depending on the Node.js version the process
\* only warns, or exits and drops every request in flight.
Settle(r, fetched, result) ==
    /\ pc[r] = "fetching"
    /\ req' = [req EXCEPT ![r].fetched = fetched]
    /\ IF "status" \in DOMAIN result
       THEN /\ resp' = [resp EXCEPT ![r] = Append(@, result)]
            /\ pc' = [pc EXCEPT ![r] = "done"]
       ELSE /\ resp' = resp
            /\ \E exits \in BOOLEAN :
                  pc' = [o \in Reqs |->
                            IF o = r \/ (exits /\ pc[o] = "fetching")
                            THEN "unanswered" ELSE pc[o]]
    /\ UNCHANGED <<fn, arg, out, values, fetches>>

\* A handler that answers from what another request has left behind.
FetchResolvesShared(r) ==
    \E o \in Reqs :
        Settle(r, "ok", IF o # r /\ pc[o] = "done" THEN resp[o][Len(resp[o])]
                        ELSE Respond(req[r].version, req[r].endpoint, req[r].query,
                                     Fetched(values), ServiceClock))

\* The fetch resolves with the sheet.
FetchResolves(r) ==
    Settle(r, "ok", Respond(req[r].version, req[r].endpoint, req[r].query,
                            Fetched(values), ServiceClock))

\* The fetch rejects (network, credentials, no such sheet).
FetchRejects(r) ==
    Settle(r, "failed", Respond(req[r].version, req[r].endpoint, req[r].query,
                                FetchError, ServiceClock))

Next == \E r \in Reqs : Receive(r) \/ FetchResolves(r) \/ FetchRejects(r)

Spec == Init /\ [][Next]_vars


\* C1: for every raw grid with a header row, readSheet returns the data rows
\* in source order, and every row shorter than the header row comes back
\* right-padded with empty strings to exactly the header count, its original
\* cells unchanged (rows that are not shorter come back as they were).
C1_ShortRowsPadded ==
    fn = "readSheet" =>
        /\ out.kind = "ok"
        /\ Len(out.val.rows) = Len(arg) - 1
        /\ \A k \in 1..(Len(arg) - 1) :
              LET src == arg[k + 1]
                  got == out.val.rows[k]
                  n == Len(out.val.headers)
              IN /\ Len(src) < n => Len(got) = n
                 /\ Len(src) >= n => got = src
                 /\ \A i \in 1..Len(src) : got[i] = src[i]
                 /\ \A i \in (Len(src) + 1)..Len(got) : got[i] = ""
        /\ Len(out.val.headers) = Len(arg[1])

\* A grid with two data rows, the first of them one cell short of the header
\* row and the second two cells short, has been normalized.
C1_Witness ==
    /\ fn = "readSheet"
    /\ Len(arg) = 3
    /\ Len(arg[1]) = 2
    /\ Len(arg[2]) = 1
    /\ Len(arg[3]) = 0
    /\ out.val.rows[1] = <<arg[2][1], "">>
    /\ out.val.rows[2] = <<"", "">>

\* The first three tokens of a timestamp text, as numbers, when the text has
\* three numeric tokens.
HasThreeFields(ts) ==
    /\ Truthy(ts)
    /\ Len(Split(ts, TsDelims)) >= 3
    /\ \A i \in 1..3 : AllDigits(Split(ts, TsDelims)[i])

Field(ts, i) == DigitsValue(Split(ts, TsDelims)[i], 0)

RealDate(y, m, d) == m \in 1..12 /\ d \in 1..DaysInMonth(y, m)

\* C2: parseTimestamp on a text whose first three tokens are numeric fields
\* (field1, field2, year): if field1 > 12 the result has day = field1 and
\* month = field2; otherwise, also when both fields are <= 12, the result has
\* month = field1 and day = field2 and is not absent. Stated for the texts
\* whose fields name a real calendar date in the reading the claim gives them.
C2_DayMonthDisambiguation ==
    (fn \in {"parseTimestamp_v80", "parseTimestamp_v75"} /\ HasThreeFields(arg)) =>
        LET f1 == Field(arg, 1)
            f2 == Field(arg, 2)
            yr == Field(arg, 3)
        IN /\ (f1 > 12 /\ RealDate(yr, f2, f1)) => out = DateOf(yr, f2, f1)
           /\ (f1 <= 12 /\ RealDate(yr, f1, f2)) => out = DateOf(yr, f1, f2)

\* The same statement for v8.0 alone, and for v7.5 outside the case where both
\* fields are <= 12 (which v7.5 answers with null).
C2_HoldsOutsideBothSmall ==
    (fn \in {"parseTimestamp_v80", "parseTimestamp_v75"} /\ HasThreeFields(arg)) =>
        LET f1 == Field(arg, 1)
            f2 == Field(arg, 2)
            yr == Field(arg, 3)
        IN /\ (f1 > 12 /\ RealDate(yr, f2, f1)) => out = DateOf(yr, f2, f1)
           /\ (f1 <= 12 /\ RealDate(yr, f1, f2)
                 /\ (fn = "parseTimestamp_v80" \/ f2 > 12)) => out = DateOf(yr, f1, f2)

\* C3: parseTimestamp (and toDate) returns null, never a shifted date, for
\* every input whose resolved month is outside 1..12, whose resolved day is
\* out of range or whose (year, month, day) is no real calendar date; an
\* absent or empty input and an input of fewer than 3 tokens give null too.
\* parseTimestamp resolves day = field1, month = field2 when field1 > 12 and
\* month = field1, day = field2 otherwise; toDate always day = field1.
C3_InvalidDatesAbsent ==
    fn \in {"parseTimestamp_v80", "parseTimestamp_v75", "toDate_v1"} =>
        /\ (~Truthy(arg) \/ Len(Split(Str(arg), TsDelims)) < 3) => out = Null
        /\ HasThreeFields(arg) =>
              LET f1 == Field(arg, 1)
                  f2 == Field(arg, 2)
                  yr == Field(arg, 3)
                  dayFirst == fn = "toDate_v1" \/ f1 > 12
              IN /\ (dayFirst /\ ~RealDate(yr, f2, f1)) => out = Null
                 /\ (~dayFirst /\ ~RealDate(yr, f1, f2)) => out = Null

\* What of C3 the code does keep: no input makes the parser throw, and an
\* absent, empty or short input gives null.
C3_ShortInputsAbsent ==
    fn \in {"parseTimestamp_v80", "parseTimestamp_v75", "toDate_v1"} =>
        /\ out.kind \in {"date", "invalid", "null"}
        /\ (~Truthy(arg) \/ Len(Split(Str(arg), TsDelims)) < 3) => out = Null

\* The data cells of the sheet of a period query that show the instant
\* `back` days before the clock.
CellsAt(back) ==
    {k \in 2..Len(arg.values) :
        arg.values[k][1] = FormatTs(DaysBefore(arg.clock, back), arg.clock.time)}

\* The data cells that hold no timestamp.
CellsUnparseable == {k \in 2..Len(arg.values) : arg.values[k][1] \in {"", "n/a"}}

\* The count in the body of a /period response.
Counted == IF fn = "period_v75" THEN out.body.visitors ELSE out.body.count

\* C4: for the last-N-days query with the clock fixed at now, a record whose
\* timestamp is exactly N days before now is counted (the window
\* [now - N days, now] is closed at both ends), a record N + 1 days before now
\* is not, and a record whose timestamp cannot be parsed never is: on a sheet
\* whose records are all of these three kinds, the count is the number of
\* records exactly N days before now.
C4_WindowInclusive ==
    fn \in {"period_v75", "period_v2"} =>
        LET n == WindowDays(arg.version, arg.query)
        IN (CellsAt(n) \cup CellsAt(n + 1) \cup CellsUnparseable = 2..Len(arg.values))
              => (out.status = 200 /\ Counted = Cardinality(CellsAt(n)))

\* The part of C4 the code keeps: records N + 1 days before now and records
\* without a parseable timestamp are not counted.
C4_OutsideNotCounted ==
    fn \in {"period_v75", "period_v2"} =>
        LET n == WindowDays(arg.version, arg.query)
        IN (CellsAt(n + 1) \cup CellsUnparseable = 2..Len(arg.values))
              => (out.status = 200 /\ Counted = 0)

\* The value a record of a countBy sheet holds in the counted column
\* (Undefined when the sheet has no such column or the row lacks the cell),
\* and the label the claim counts it under.
CountedValue(k) ==
    IF arg[1] = <<CountKey>> /\ Len(arg[k + 1]) >= 1 THEN arg[k + 1][1] ELSE Undefined

ClaimedLabel(k) ==
    IF CountedValue(k) = Undefined \/ Trim(CountedValue(k)) = ""
    THEN "Unknown"
    ELSE Trim(CountedValue(k))

FirstSeen(label) ==
    CHOOSE k \in 1..(Len(arg) - 1) :
        /\ ClaimedLabel(k) = label
        /\ \A j \in 1..(k - 1) : ClaimedLabel(j) # label

\* C5: countBy counts every record exactly once, a record whose value in the
\* column is absent or blank (empty or whitespace only) under "Unknown" and
\* every other record under its trimmed value, so that the counts sum to the
\* number of records; the buckets come in descending order of count, ties in
\* first-seen order.
C5_CountByUnknownAndOrder ==
    fn = "countBy" =>
        LET n == Len(arg) - 1
        IN /\ \A i \in 1..Len(out) :
                 out[i].count = Cardinality({k \in 1..n : ClaimedLabel(k) = out[i].label})
           /\ \A k \in 1..n : \E i \in 1..Len(out) : out[i].label = ClaimedLabel(k)
           /\ \A i, j \in 1..Len(out) : i < j =>
                 /\ out[i].label # out[j].label
                 /\ out[i].count >= out[j].count
                 /\ out[i].count = out[j].count =>
                        FirstSeen(out[i].label) < FirstSeen(out[j].label)

RECURSIVE SumCounts(_)
SumCounts(entries) ==
    IF Len(entries) = 0 THEN 0
    ELSE entries[1].count + SumCounts(SubSeq(entries, 2, Len(entries)))

\* The part of C5 the code keeps: every record is counted exactly once (the
\* counts sum to the number of records), absent and empty values are counted
\* under "Unknown", and the counts descend.
C5_EveryRecordCountedOnce ==
    fn = "countBy" =>
        /\ SumCounts(out) = Len(arg) - 1
        /\ \A i, j \in 1..Len(out) : i < j => out[i].count >= out[j].count
        /\ \A i \in 1..Len(out) : out[i].label = "Unknown" =>
              out[i].count = Cardinality({k \in 1..(Len(arg) - 1) :
                                             CountedValue(k) \in {Undefined, ""}})

\* The columns a /cross of the harness reads, the values of a record in them
\* with each missing one (absent or empty) replaced by "Unknown", and the
\* buckets of the response.
CrossCols == IF fn = "cross_v1" THEN CrossColumns_v1 ELSE CrossColumns_v2

CrossTuple(k) ==
    [i \in 1..Len(CrossCols) |->
        LET v == At(arg[k + 1], CrossCols[i])
        IN IF v = Undefined \/ v = "" THEN "Unknown" ELSE v]

Buckets == out.body.breakdown

AllUnknownKey ==
    IF fn = "cross_v1" THEN "Unknown_Unknown_Unknown"
    ELSE "Unknown_Unknown_Unknown_Unknown"

HasDelimiter(k) == \E i \in 1..Len(CrossCols) : Includes(CrossTuple(k)[i], "_")

\* C6 as claimed: each record falls in exactly one bucket, keyed by its values
\* joined with the delimiter, missing values replaced by "Unknown"; when all
\* values of all records are missing there is exactly one bucket, with the
\* all-"Unknown" key and the total count; and records with different value
\* tuples never share a bucket (there are as many buckets as distinct tuples).
C6_TuplesNeverShare ==
    fn \in {"cross_v1", "cross_v2"} =>
        LET n == Len(arg) - 1
        IN /\ out.status = 200
           /\ SumCounts(Buckets) = n
           /\ Len(Buckets) = Cardinality({CrossTuple(k) : k \in 1..n})

\* C6 as amended: each record falls in exactly one bucket, whose key is its
\* values joined with "_", missing values replaced by "Unknown", and whose
\* count is the number of records with that key; when all values of all
\* records are missing there is exactly one bucket, with the all-"Unknown" key
\* and the total count; and records with different value tuples do not share
\* a bucket provided none of their values contains the delimiter "_".
C6_BucketPerJoinedKey ==
    fn \in {"cross_v1", "cross_v2"} =>
        LET n == Len(arg) - 1
            KeyOf(k) == JoinLabels(CrossTuple(k))
        IN /\ out.status = 200
           /\ SumCounts(Buckets) = n
           /\ \A k \in 1..n : \E i \in 1..Len(Buckets) : Buckets[i].key = KeyOf(k)
           /\ \A i \in 1..Len(Buckets) :
                 /\ Buckets[i].count = Cardinality({k \in 1..n : KeyOf(k) = Buckets[i].key})
                 /\ \A j \in 1..Len(Buckets) : i # j => Buckets[i].key # Buckets[j].key
           /\ (n > 0 /\ \A k \in 1..n : \A i \in 1..Len(CrossCols) : CrossTuple(k)[i] = "Unknown")
                 => Buckets = <<[key |-> AllUnknownKey, count |-> n]>>
           /\ \A k1, k2 \in 1..n :
                 (CrossTuple(k1) # CrossTuple(k2) /\ ~HasDelimiter(k1) /\ ~HasDelimiter(k2))
                    => KeyOf(k1) # KeyOf(k2)
           /\ (\A k \in 1..n : ~HasDelimiter(k))
                 => Len(Buckets) = Cardinality({CrossTuple(k) : k \in 1..n})

\* /cross has answered for two records, one with every value missing and one
\* with values (none holding the delimiter): two buckets of one record each,
\* the first under the all-"Unknown" key.
C6_Witness ==
    /\ fn = "cross_v2"
    /\ Len(arg) = 3
    /\ CrossTuple(1) = <<"Unknown", "Unknown", "Unknown", "Unknown">>
    /\ CrossTuple(2) = <<"a", "a", "Unknown", "x">>
    /\ Buckets = <<[key |-> AllUnknownKey, count |-> 1],
                   [key |-> "a_a_Unknown_x", count |-> 1]>>

\* The label C7 gives a text: Neutral when it is empty or absent, Positive
\* when its lower case holds a positive keyword, Follow-up Required when it
\* holds a follow-up keyword and no positive one, Neutral otherwise.
ClaimedSentiment(text) ==
    LET s == ToLowerCase(Str(text))
        positive == \E w \in {"booked", "interested", "good", "positive"} : Includes(s, w)
        followUp == \E w \in {"follow", "call", "pending", "waiting"} : Includes(s, w)
    IN IF text = Undefined \/ text = "" THEN "Neutral"
       ELSE IF positive THEN "Positive"
       ELSE IF followUp THEN "Follow-up Required"
       ELSE "Neutral"

ClaimedNormalForm(s) == ToLowerCase(CollapseSpaces(Trim(s)))

\* The 0-based index of the first header with the normal form of name, or -1.
ClaimedIndex(headers, name) ==
    LET hit == {i \in 1..Len(headers) : ClaimedNormalForm(headers[i]) = ClaimedNormalForm(name)}
    IN IF hit = {} THEN -1
       ELSE (CHOOSE i \in hit : \A j \in hit : i <= j) - 1

\* C8: findColumn(headers, name) returns the index of the first header whose
\* normal form (trimmed, whitespace runs collapsed, case-folded) equals that
\* of name, and not-found when there is none; a header that differs from
\* name only in case, surrounding or internal whitespace is found.
C8_FindColumnNormalized ==
    fn \in {"findColumn_v80", "findColumn_v75"} =>
        out = ClaimedIndex(arg.headers, arg.name)

\* The part of C8 the code keeps: findColumn of v8.0 is that lookup, and
\* findColumn of v7.5 never names a header of another normal form.
C8_HoldsInV80 ==
    /\ fn = "findColumn_v80" => out = ClaimedIndex(arg.headers, arg.name)
    /\ fn = "findColumn_v75" /\ out # -1 =>
          ClaimedNormalForm(arg.headers[out + 1]) = ClaimedNormalForm(arg.name)

\* The columns an endpoint requires.
RequiredColumns(endpoint) ==
    CASE endpoint \in {"/period", "/monthly"} -> {TimestampColumn}
      [] endpoint = "/sources" -> {SourceColumn}
      [] endpoint = "/handlers" -> {HandledByColumn, SalesColumn}
      [] OTHER -> {}

\* The fetched sheet has a header row, and a column the endpoint requires
\* has no match in it.
ColumnMissing(endpoint) ==
    /\ Len(values) > 0
    /\ \E c \in RequiredColumns(endpoint) : ClaimedIndex(values[1], c) = -1

\* The response a finished request has sent.
Answer(r) == resp[r][Len(resp[r])]

\* C9: when a column an endpoint requires has no match in the header row,
\* the request ends with a column-not-found failure and never with a
\* successful aggregate.
C9_MissingColumnFails ==
    \A r \in Reqs :
        pc[r] = "done" /\ req[r].fetched = "ok" /\ ColumnMissing(req[r].endpoint) =>
            Answer(r).status # 200

\* What the code does instead: with its column missing, each of these
\* endpoints answers 200.
C9_MissingColumnAnswers200 ==
    \A r \in Reqs :
        pc[r] = "done" /\ req[r].fetched = "ok" /\ ColumnMissing(req[r].endpoint) =>
            Answer(r).status = 200

\* C10: a request fetches exactly once; a failed fetch ends in a failure
\* response, never in a successful empty result; a fetched empty grid ends
\* in a success, never in a failure, so the two can be told apart.
C10_FetchFailureVsEmptyGrid ==
    \A r \in Reqs :
        /\ fetches[r] <= 1
        /\ pc[r] = "done" /\ req[r].fetched # "no" => fetches[r] = 1 /\ Len(resp[r]) = 1
        /\ pc[r] = "done" /\ req[r].fetched = "failed" => Answer(r).status # 200
        /\ pc[r] = "done" /\ req[r].fetched = "ok" /\ values = NoValues =>
              Answer(r).status = 200

\* The part of C10 the code keeps: one fetch and one response per request,
\* and a failed fetch is answered with a failure.
C10_OneFetchFailureReported ==
    \A r \in Reqs :
        /\ fetches[r] <= 1
        /\ pc[r] = "done" /\ req[r].fetched # "no" => fetches[r] = 1 /\ Len(resp[r]) = 1
        /\ pc[r] = "done" /\ req[r].fetched = "failed" => Answer(r).status = 500

\* Where C10 fails: the handlers that go through readSheet of v7.5, v8.0
\* or v1 answer a fetched empty grid with 500 as they answer a failed fetch
\* (/verify does not answer at all); /analysis of v3 and /salesperson of v2
\* answer it with 200.
C10_EmptyGridIs500InV75 ==
    \A r \in Reqs :
        pc[r] = "done" /\ req[r].fetched = "ok" /\ values = NoValues =>
            Answer(r).status = (IF req[r].version \in {"v3", "v2"} THEN 200 ELSE 500)

\* C12: on an empty grid (no rows at all, not even a header row) readSheet
\* returns an empty header list and an empty record list and does not fault.
C12_EmptyGridNormalizes ==
    fn \in {"readSheet", "readSheet_v2", "readSheet_v1"} /\ arg = NoValues =>
        out = Ok([headers |-> <<>>, rows |-> <<>>])

\* What the code does on an empty grid: readSheet of v8.0 and v7.5 and of v1
\* throw a TypeError, readSheet of v2 returns undefined for the header list.
C12_EmptyGridFaults ==
    arg = NoValues =>
        /\ fn \in {"readSheet", "readSheet_v1"} => out.kind = "throw"
        /\ fn = "readSheet_v2" => out = Ok([headers |-> Undefined, rows |-> <<>>])

\* With a header row no version faults.
C12_HeaderRowNoFault ==
    fn # "none" /\ arg # NoValues => out.kind = "ok" /\ Len(out.val.rows) = Len(arg) - 1

\* The request of r omits the filter argument its query requires: name for
\* /salesperson, month for /monthly.
OmitsFilter(r) ==
    \/ req[r].endpoint = "/salesperson" /\ ~Truthy(req[r].query.name)
    \/ req[r].endpoint = "/monthly" /\ ~Truthy(req[r].query.month)

\* C11: a request that omits a required filter argument (name for
\* /salesperson, month for /monthly) ends with a client-input failure and
\* no fetch is ever issued for it.
C11_ValidationPrecedesFetch ==
    \A r \in Reqs :
        OmitsFilter(r) =>
            /\ fetches[r] = 0
            /\ pc[r] = "done"
            /\ Len(resp[r]) = 1
            /\ Answer(r).status = 400

\* The part of C11 the code keeps: /salesperson of v2 and of v1 without a
\* name answers 400 and does not fetch.
C11_SalespersonValidated ==
    \A r \in Reqs :
        OmitsFilter(r) /\ req[r].endpoint = "/salesperson" =>
            /\ fetches[r] = 0
            /\ pc[r] = "done"
            /\ resp[r] = <<Json(400, [error |-> "Missing name"])>>

\* What /monthly of v7.5 does without a month: it fetches, and when the
\* fetch resolves with a header row it answers 200 with a count of 0.
C11_MonthlyFetchesAnyway ==
    \A r \in Reqs :
        OmitsFilter(r) /\ req[r].endpoint = "/monthly" =>
            /\ fetches[r] = 1
            /\ pc[r] = "done" /\ req[r].fetched = "ok" /\ values # NoValues =>
                  Answer(r) = Json(200, [month |-> Undefined, visitors |-> 0])

\* The handler names of a cell: split on ',', '&' and '/', trimmed, the
\* empty ones dropped.
ClaimedNamesIn(cell) ==
    LET parts == IF Truthy(cell) THEN Split(cell, {",", "&", "/"}) ELSE <<>>
    IN SelectSeq([i \in 1..Len(parts) |-> Trim(parts[i])], LAMBDA n : n # "")

\* The handler names of a record, from both handler columns.
ClaimedNames(row) ==
    ClaimedNamesIn(At(row, ClaimedIndex(values[1], HandledByColumn)))
    \o ClaimedNamesIn(At(row, ClaimedIndex(values[1], SalesColumn)))

\* How often the name n is to be counted over the records in rows.
RECURSIVE ClaimedVisits(_, _)
ClaimedVisits(rows, n) ==
    IF Len(rows) = 0 THEN 0
    ELSE Cardinality({i \in 1..Len(ClaimedNames(rows[1])) : ClaimedNames(rows[1])[i] = n})
         + ClaimedVisits(SubSeq(rows, 2, Len(rows)), n)

\* The per-handler breakdown of a response, as label and count, and the
\* records of the sheet it was counted over.
HandlerBreakdown(r) ==
    IF req[r].endpoint = "/handlers"
    THEN [i \in 1..Len(Answer(r).body.leaderboard) |->
             [label |-> Answer(r).body.leaderboard[i].name,
              count |-> Answer(r).body.leaderboard[i].visits]]
    ELSE [i \in 1..Len(Answer(r).body.handlers) |->
             [label |-> Answer(r).body.handlers[i].handler,
              count |-> Answer(r).body.handlers[i].visits]]

HandlerRecords(r) ==
    LET rows == SubSeq(values, 2, Len(values))
    IN IF req[r].endpoint = "/handlers" THEN rows
       ELSE SelectSeq(rows, LAMBDA row :
                \E i \in 1..Len(Answer(r).body.remarks) :
                    Answer(r).body.remarks[i].timestamp = At(row, 0))

\* A request for a per-handler breakdown has been answered from a sheet
\* that has both handler columns.
HandlersAnswered(r) ==
    /\ pc[r] = "done"
    /\ req[r].endpoint \in {"/handlers", "/socialmedia"}
    /\ req[r].fetched = "ok"
    /\ Len(values) > 0
    /\ ClaimedIndex(values[1], HandledByColumn) # -1
    /\ ClaimedIndex(values[1], SalesColumn) # -1
    /\ Answer(r).status = 200

\* The breakdown counts every name of the records under that name alone.
ExactNames(r) ==
    LET got == HandlerBreakdown(r)
        rows == HandlerRecords(r)
    IN /\ \A i \in 1..Len(got) : got[i].count = ClaimedVisits(rows, got[i].label)
       /\ \A k \in 1..Len(rows) : \A j \in 1..Len(ClaimedNames(rows[k])) :
             \E i \in 1..Len(got) : got[i].label = ClaimedNames(rows[k])[j]

\* C13: in the handler leaderboard and the social-media handler breakdown
\* the names of a record come from both handler columns, split on ',', '&'
\* and '/' and trimmed; each is counted under that exact name alone, never
\* fused with a name of the other column, and a '/'-list is never one name.
C13_HandlersSplitAndExact ==
    \A r \in Reqs : HandlersAnswered(r) => ExactNames(r)

\* The part of C13 the code keeps: the breakdown of /socialmedia of v8.0.
C13_HoldsInSocialmedia ==
    \A r \in Reqs : HandlersAnswered(r) /\ req[r].endpoint = "/socialmedia" => ExactNames(r)

\* What the handler of r's request comes to when it runs alone on the
\* outcome of its own fetch.
Alone(r) ==
    Respond(req[r].version, req[r].endpoint, req[r].query,
            IF req[r].fetched = "ok" THEN Fetched(values) ELSE FetchError,
            ServiceClock)

Ended(r) == pc[r] \notin {"idle", "fetching"}

\* C15: every request receives exactly one response, whether its fetch
\* succeeds, fails or returns an empty grid: once the handler of a request
\* has run to its end there is one response to it, a success payload or an
\* error, and there are never two.
C15_EveryRequestAnswered ==
    \A r \in Reqs :
        /\ Len(resp[r]) <= 1
        /\ Ended(r) => Len(resp[r]) = 1 /\ Answer(r).status \in {200, 400, 500}

\* The part of C15 the code keeps: no request is answered twice, and a
\* request to an endpoint other than /verify is answered when its handler
\* ends unless the process has exited under it.
C15_AtMostOneResponse ==
    \A r \in Reqs :
        /\ Len(resp[r]) <= 1
        /\ pc[r] = "done" => Len(resp[r]) = 1

\* Where C15 fails: a request is left unanswered only through the unhandled
\* rejection of a /verify handler, whose fetch failed or found no grid.
C15_UnansweredOnlyByVerify ==
    \A r \in Reqs :
        pc[r] = "unanswered" =>
            \E o \in Reqs : /\ req[o].endpoint = "/verify"
                            /\ pc[o] = "unanswered"
                            /\ req[o].fetched = "failed" \/ values = NoValues

\* A request left unanswered stays unanswered: no later step responds to it.
C15_UnansweredForGood ==
    [][\A r \in Reqs : pc[r] = "unanswered" => pc'[r] = "unanswered" /\ resp'[r] = <<>>]_vars

====
